---- MODULE Spec2Model ----
(***************************************************************************)
(* Fake-news detection front end: the analysis path from the NewsInput     *)
(* component through AppContent.handleAnalyze, predictFakeNews, apiRequest *)
(* and createFallbackPrediction (src/src/services/api.ts).                 *)
(*                                                                         *)
(* Strings the code inspects (the text, the URL, the indicator words) are  *)
(* sequences of one-character strings, so that toLowerCase, trim, includes *)
(* and length are computed character by character as the code does.        *)
(* Strings the code only copies (explanations, version tags) are TLA+      *)
(* strings.  Confidences are integers on the 0..100 scale.                 *)
(*                                                                         *)
(* Spec is the client with AppContent mounted, SimpleSpec the same client  *)
(* with SimpleApp mounted, CombineSpec the backend's score combination and *)
(* BatchSpec the batch call predictBatchFakeNews.  LiveSpec is Spec with   *)
(* the abort timer of apiRequest scheduled fairly.  HistorySpec follows    *)
(* the predictionHistory of localStorage and the HistoryPanel, FeedbackSpec*)
(* the FeedbackDialog, StatsSpec the statistics of getModelStats.          *)
(***************************************************************************)
EXTENDS Integers, Sequences, FiniteSets, TLC

\* ------------------------------------------------------------------------
\* Bounds of the exploration
\* ------------------------------------------------------------------------

\* Date.now() takes the values 0..MaxClock
MaxClock == 1

\* ------------------------------------------------------------------------
\* JavaScript string operations
\* ------------------------------------------------------------------------

\* the value of an absent field / argument
Undefined == "undefined"

\* an absent string argument (url?: string), among character sequences
NoString == <<"undefined">>

\* the value of useState<PredictionResult | null>(null), among records
Null == [null |-> TRUE]

UpperLetters ==
  <<"A", "B", "C", "D", "E", "F", "G", "H", "I", "J", "K", "L", "M",
    "N", "O", "P", "Q", "R", "S", "T", "U", "V", "W", "X", "Y", "Z">>

LowerLetters ==
  <<"a", "b", "c", "d", "e", "f", "g", "h", "i", "j", "k", "l", "m",
    "n", "o", "p", "q", "r", "s", "t", "u", "v", "w", "x", "y", "z">>

Digits == {"0", "1", "2", "3", "4", "5", "6", "7", "8", "9"}

WhiteSpace == {" ", "\t", "\n", "\r"}

\* upper-case letter -> lower-case letter
LowerMap ==
  [ c \in {UpperLetters[i] : i \in 1..26} |->
      LowerLetters[CHOOSE i \in 1..26 : UpperLetters[i] = c] ]

LowerChar(c) == IF c \in DOMAIN LowerMap THEN LowerMap[c] ELSE c

\* the text compared as typed, without lower-casing
ToLowerCaseIdentity(s) == s

\* String.prototype.toLowerCase
ToLowerCase(s) == [i \in 1..Len(s) |-> LowerChar(s[i])]

\* String.prototype.includes
Includes(s, w) ==
  \/ w = <<>>
  \/ \E i \in 1..(Len(s) - Len(w) + 1) :
       s[i] = w[1] /\ SubSeq(s, i, i + Len(w) - 1) = w

RECURSIVE TrimStart(_)
TrimStart(s) ==
  IF s = <<>> \/ Head(s) \notin WhiteSpace THEN s ELSE TrimStart(Tail(s))

RECURSIVE TrimEnd(_)
TrimEnd(s) ==
  IF s = <<>> \/ s[Len(s)] \notin WhiteSpace THEN s
  ELSE TrimEnd(SubSeq(s, 1, Len(s) - 1))

\* String.prototype.trim
Trim(s) == TrimEnd(TrimStart(s))

\* truthiness of a string: only '' is falsy
Truthy(s) == s # <<>> /\ s # NoString

\* the count of the words that s does not include
FilterCountMissing(words, s) ==
  Cardinality({i \in 1..Len(words) : ~Includes(s, words[i])})

\* words.filter(word => s.includes(word)).length
FilterCount(words, s) ==
  Cardinality({i \in 1..Len(words) : Includes(s, words[i])})

\* Math.min
Min(a, b) == IF a <= b THEN a ELSE b

\* ------------------------------------------------------------------------
\* Literals of the source
\* ------------------------------------------------------------------------

\* ------------------------------------------------------------------------
\* State
\* ------------------------------------------------------------------------

VARIABLES
  isAnalyzing,    \* AppContent: analysis in progress
  currentResult,  \* AppContent: result on display, or Null
  call,           \* arguments of the latest predictFakeNews call
  pc,             \* position of that call: idle, fetch, json, errjson
  timer,          \* the abort timer of apiRequest: none, armed, cleared
  status,         \* response.status of the response whose body is awaited
  now,            \* Date.now()
  net,            \* what the network did for the latest call
  ret,            \* how the latest predictFakeNews call settled
  trace,          \* stages the latest call went through
  prev,           \* the settled call before it, when it had the same
                  \* arguments and met the same network behaviour
  app,            \* the root component that is mounted: AppContent or SimpleApp
  engine,         \* the backend's latest score combination
  batch,          \* the latest predictBatchFakeNews call
  localStorage,   \* the predictionHistory item of localStorage
  panel,          \* HistoryPanel: its state while the history tab is open
  dialog,         \* FeedbackDialog and feedbackDialogOpen of AppContent
  stats           \* what the latest getModelStats call returned

vars ==
  << isAnalyzing, currentResult, call, pc, timer, status, now, net, ret,
     trace, prev, app, engine, batch, localStorage, panel, dialog, stats >>

\* what a single analysis leaves alone
others == << app, engine, batch, stats >>

\* the history and the components that show it and the result
views == << localStorage, panel, dialog >>

\* ['shocking', 'unbelievable', 'you won\'t believe', 'click here', 'amazing', 'secret']
fakeIndicators ==
  << <<"s", "h", "o", "c", "k", "i", "n", "g">>,
     <<"u", "n", "b", "e", "l", "i", "e", "v", "a", "b", "l", "e">>,
     <<"y", "o", "u", " ", "w", "o", "n", "'", "t", " ", "b", "e", "l", "i",
       "e", "v", "e">>,
     <<"c", "l", "i", "c", "k", " ", "h", "e", "r", "e">>,
     <<"a", "m", "a", "z", "i", "n", "g">>,
     <<"s", "e", "c", "r", "e", "t">> >>

\* ['according to', 'study', 'research', 'university', 'published']
realIndicators ==
  << <<"a", "c", "c", "o", "r", "d", "i", "n", "g", " ", "t", "o">>,
     <<"s", "t", "u", "d", "y">>,
     <<"r", "e", "s", "e", "a", "r", "c", "h">>,
     <<"u", "n", "i", "v", "e", "r", "s", "i", "t", "y">>,
     <<"p", "u", "b", "l", "i", "s", "h", "e", "d">> >>

\* ""
EmptyText ==
  <<>>

\* "   "
BlankText ==
  <<" ", " ", " ">>

\* "short"
ShortText ==
  <<"s", "h", "o", "r", "t">>

\* "Plain text"
MinLengthText ==
  <<"P", "l", "a", "i", "n", " ", "t", "e", "x", "t">>

\* "SHOCKING! You won't believe this amazing discovery! Click here!"
ScenarioA ==
  <<"S", "H", "O", "C", "K", "I", "N", "G", "!", " ", "Y", "o", "u", " ",
    "w", "o", "n", "'", "t", " ", "b", "e", "l", "i", "e", "v", "e", " ",
    "t", "h", "i", "s", " ", "a", "m", "a", "z", "i", "n", "g", " ", "d",
    "i", "s", "c", "o", "v", "e", "r", "y", "!", " ", "C", "l", "i", "c",
    "k", " ", "h", "e", "r", "e", "!">>

\* "According to a study published in Nature, researchers at a university found a 15% reduction in risk over 10 years."
ScenarioB ==
  <<"A", "c", "c", "o", "r", "d", "i", "n", "g", " ", "t", "o", " ", "a",
    " ", "s", "t", "u", "d", "y", " ", "p", "u", "b", "l", "i", "s", "h",
    "e", "d", " ", "i", "n", " ", "N", "a", "t", "u", "r", "e", ",", " ",
    "r", "e", "s", "e", "a", "r", "c", "h", "e", "r", "s", " ", "a", "t",
    " ", "a", " ", "u", "n", "i", "v", "e", "r", "s", "i", "t", "y", " ",
    "f", "o", "u", "n", "d", " ", "a", " ", "1", "5", "%", " ", "r", "e",
    "d", "u", "c", "t", "i", "o", "n", " ", "i", "n", " ", "r", "i", "s",
    "k", " ", "o", "v", "e", "r", " ", "1", "0", " ", "y", "e", "a", "r",
    "s", ".">>

\* "SHOCKING! You won't believe this discovery!"
DeployTestText ==
  <<"S", "H", "O", "C", "K", "I", "N", "G", "!", " ", "Y", "o", "u", " ",
    "w", "o", "n", "'", "t", " ", "b", "e", "l", "i", "e", "v", "e", " ",
    "t", "h", "i", "s", " ", "d", "i", "s", "c", "o", "v", "e", "r", "y",
    "!">>

\* "A shocking new study"
TieText ==
  <<"A", " ", "s", "h", "o", "c", "k", "i", "n", "g", " ", "n", "e", "w",
    " ", "s", "t", "u", "d", "y">>

\* "The secret garden"
OneFakeText ==
  <<"T", "h", "e", " ", "s", "e", "c", "r", "e", "t", " ", "g", "a", "r",
    "d", "e", "n">>

\* "New research today"
OneRealText ==
  <<"N", "e", "w", " ", "r", "e", "s", "e", "a", "r", "c", "h", " ", "t",
    "o", "d", "a", "y">>

\* "Amazing secret study"
TwoFakeOneRealText ==
  <<"A", "m", "a", "z", "i", "n", "g", " ", "s", "e", "c", "r", "e", "t",
    " ", "s", "t", "u", "d", "y">>

\* "Amazing university research"
OneFakeTwoRealText ==
  <<"A", "m", "a", "z", "i", "n", "g", " ", "u", "n", "i", "v", "e", "r",
    "s", "i", "t", "y", " ", "r", "e", "s", "e", "a", "r", "c", "h">>

\* "Shocking, unbelievable, amazing secret: you won't believe it, click here"
SixFakeText ==
  <<"S", "h", "o", "c", "k", "i", "n", "g", ",", " ", "u", "n", "b", "e",
    "l", "i", "e", "v", "a", "b", "l", "e", ",", " ", "a", "m", "a", "z",
    "i", "n", "g", " ", "s", "e", "c", "r", "e", "t", ":", " ", "y", "o",
    "u", " ", "w", "o", "n", "'", "t", " ", "b", "e", "l", "i", "e", "v",
    "e", " ", "i", "t", ",", " ", "c", "l", "i", "c", "k", " ", "h", "e",
    "r", "e">>

\* "The Federal Reserve announced today that interest rates will remain unchanged at 5.25-5.50% following their two-day policy meeting."
FedSampleText ==
  <<"T", "h", "e", " ", "F", "e", "d", "e", "r", "a", "l", " ", "R", "e",
    "s", "e", "r", "v", "e", " ", "a", "n", "n", "o", "u", "n", "c", "e",
    "d", " ", "t", "o", "d", "a", "y", " ", "t", "h", "a", "t", " ", "i",
    "n", "t", "e", "r", "e", "s", "t", " ", "r", "a", "t", "e", "s", " ",
    "w", "i", "l", "l", " ", "r", "e", "m", "a", "i", "n", " ", "u", "n",
    "c", "h", "a", "n", "g", "e", "d", " ", "a", "t", " ", "5", ".", "2",
    "5", "-", "5", ".", "5", "0", "%", " ", "f", "o", "l", "l", "o", "w",
    "i", "n", "g", " ", "t", "h", "e", "i", "r", " ", "t", "w", "o", "-",
    "d", "a", "y", " ", "p", "o", "l", "i", "c", "y", " ", "m", "e", "e",
    "t", "i", "n", "g", ".">>

\* ""
EmptyUrl ==
  <<>>

\* " "
BlankUrl ==
  <<" ">>

\* "not a url"
NotAUrl ==
  <<"n", "o", "t", " ", "a", " ", "u", "r", "l">>

\* "https://example.com/article"
ArticleUrl ==
  <<"h", "t", "t", "p", "s", ":", "/", "/", "e", "x", "a", "m", "p", "l",
    "e", ".", "c", "o", "m", "/", "a", "r", "t", "i", "c", "l", "e">>

\* "Article from "
MockPrefix ==
  <<"A", "r", "t", "i", "c", "l", "e", " ", "f", "r", "o", "m", " ">>

\* ": This is simulated content extracted from the provided URL. The actual implementation would scrape the webpage content for analysis."
MockSuffix ==
  <<":", " ", "T", "h", "i", "s", " ", "i", "s", " ", "s", "i", "m", "u",
    "l", "a", "t", "e", "d", " ", "c", "o", "n", "t", "e", "n", "t", " ",
    "e", "x", "t", "r", "a", "c", "t", "e", "d", " ", "f", "r", "o", "m",
    " ", "t", "h", "e", " ", "p", "r", "o", "v", "i", "d", "e", "d", " ",
    "U", "R", "L", ".", " ", "T", "h", "e", " ", "a", "c", "t", "u", "a",
    "l", " ", "i", "m", "p", "l", "e", "m", "e", "n", "t", "a", "t", "i",
    "o", "n", " ", "w", "o", "u", "l", "d", " ", "s", "c", "r", "a", "p",
    "e", " ", "t", "h", "e", " ", "w", "e", "b", "p", "a", "g", "e", " ",
    "c", "o", "n", "t", "e", "n", "t", " ", "f", "o", "r", " ", "a", "n",
    "a", "l", "y", "s", "i", "s", ".">>

\* "URL analysis failed"
UrlFailedText ==
  <<"U", "R", "L", " ", "a", "n", "a", "l", "y", "s", "i", "s", " ", "f",
    "a", "i", "l", "e", "d">>

\* ------------------------------------------------------------------------
\* The clock
\* ------------------------------------------------------------------------

\* new Date().toISOString(): the ISO text of the instant t
ToISOString(t) == "T" \o ToString(t) \o "Z"

\* 'fallback-' + Date.now()
FallbackId(t) == "fallback-" \o ToString(t)

\* ------------------------------------------------------------------------
\* createFallbackPrediction
\* ------------------------------------------------------------------------

FallbackVersion == "fallback-v1.0"

BackendVersion == "lightweight-v1.0"

FallbackSources == <<"https://www.snopes.com", "https://www.factcheck.org">>

\* the explanation carrying the instant of the analysis
StampedExplanation(prediction) ==
  IF prediction = "fake" THEN "fallback fake " \o ToString(now)
  ELSE IF prediction = "real" THEN "fallback real " \o ToString(now)
  ELSE "fallback inconclusive " \o ToString(now)

FallbackExplanation(prediction) ==
  IF prediction = "fake"
  THEN "This analysis uses a simple fallback system. The text contains language patterns often associated with misinformation."
  ELSE IF prediction = "real"
  THEN "This analysis uses a simple fallback system. The text appears to follow standard journalistic patterns."
  ELSE "This analysis uses a simple fallback system. The text shows mixed indicators and requires further verification."

\* the confidence without its cap of 85
UncappedConfidence(count) == 60 + count * 10

\* the confidence counted from a base of 50 instead of 60
LowBaseConfidence(count) == Min(85, 50 + count * 10)

\* confidence = Math.min(85, 60 + count * 10)
IndicatorConfidence(count) == Min(85, 60 + count * 10)

createFallbackPrediction(text, t) ==
  LET lowerText  == ToLowerCase(text)
      fakeCount  == FilterCount(fakeIndicators, lowerText)
      realCount  == FilterCount(realIndicators, lowerText)
      prediction == IF fakeCount > realCount /\ fakeCount > 0 THEN "fake"
                    ELSE IF realCount > fakeCount /\ realCount > 0 THEN "real"
                    ELSE "inconclusive"
      confidence == IF fakeCount > realCount /\ fakeCount > 0
                    THEN IndicatorConfidence(fakeCount)
                    ELSE IF realCount > fakeCount /\ realCount > 0
                    THEN IndicatorConfidence(realCount)
                    ELSE 60
  IN  [ id            |-> FallbackId(t),
        prediction    |-> prediction,
        confidence    |-> confidence,
        explanation   |-> FallbackExplanation(prediction),
        factors       |-> << [ name        |-> "Pattern Analysis",
                               score       |-> confidence,
                               impact      |-> IF prediction = "fake"
                                               THEN "negative" ELSE "positive",
                               description |-> "Simple keyword-based analysis ("
                                                 \o ToString(fakeCount)
                                                 \o " fake indicators, "
                                                 \o ToString(realCount)
                                                 \o " real indicators)" ] >>,
        sources       |-> FallbackSources,
        timestamp     |-> ToISOString(t),
        inputText     |-> text,
        modelVersion  |-> FallbackVersion ]

\* ------------------------------------------------------------------------
\* The backend behind POST /predict (its source is not part of the front
\* end; its answers follow the documented response format)
\* ------------------------------------------------------------------------

\* minimum number of characters of an accepted text
MinTextLength == 10

\* the backend refuses a text that is empty or too short after stripping
BackendAccepts(body) ==
  Truthy(body.url) \/ Len(Trim(body.text)) >= MinTextLength

\* labels as the backend spells them (by_prediction.FAKE, "real|fake|inconclusive")
BackendLabels ==
  { <<"F", "A", "K", "E">>, <<"f", "a", "k", "e">>, <<"R", "E", "A", "L">>,
    <<"i", "n", "c", "o", "n", "c", "l", "u", "s", "i", "v", "e">> }

\* confidences on the documented 0..100 scale
BackendConfidences == {0, 50, 100}

BackendExplanation == "backend explanation"

\* the order in which the adjusted features are declared
FeatureOrder == <<"clickbait", "emotional", "bias", "citations">>

\* number of factors an explanation lists at most
TopN == 5

\* a factor list of the backend: by descending contribution, the tie between
\* emotional and citations in declaration order
BackendFactors ==
  << [ name |-> "clickbait", score |-> 15, impact |-> "negative",
       description |-> "clickbait score 80" ],
     [ name |-> "emotional", score |-> 10, impact |-> "negative",
       description |-> "emotional language score 70" ],
     [ name |-> "citations", score |-> 10, impact |-> "positive",
       description |-> "2 citations" ] >>

\* answer of /predict to a text request
TextResponses ==
  [ prediction  : BackendLabels,
    confidence  : BackendConfidences,
    explanation : {BackendExplanation},
    features    : {"features"} ]

\* answer of /predict to a url request: a PredictionResult
UrlResponses ==
  [ id           : {"uuid"},
    prediction   : {"real", "fake", "inconclusive"},
    confidence   : BackendConfidences,
    explanation  : {BackendExplanation},
    factors      : {<<>>, BackendFactors},
    sources      : {FallbackSources},
    timestamp    : {Undefined, "2024-01-01T12:00:00Z"},
    inputText    : {"scraped article"},
    modelVersion : {"bert-fake-news-v1.0"} ]

\* statuses of a response that is not ok
ErrorStatuses == {400, 500}

\* the message field of an error body (absent: Undefined)
ErrorMessages == {"Text too short", Undefined}

\* ------------------------------------------------------------------------
\* NewsInput helpers
\* ------------------------------------------------------------------------

\* texts the user can have in the text area (typed, pasted, loaded from a file)
Texts ==
  { EmptyText, BlankText, ShortText, MinLengthText, ScenarioA, ScenarioB,
    DeployTestText, TieText, OneFakeText, OneRealText, TwoFakeOneRealText,
    OneFakeTwoRealText, SixFakeText, FedSampleText }

\* contents of the URL field
Urls == { EmptyUrl, BlankUrl, NotAUrl, ArticleUrl }

IsLetter(c) ==
  \E i \in 1..26 : UpperLetters[i] = c \/ LowerLetters[i] = c

\* new URL(urlString) succeeds: a scheme (a letter, then letters, digits,
\* "+", "-", ".") followed by ":" and, here, a non-empty rest
isValidUrl(urlString) ==
  LET s == Trim(urlString)
  IN  \E k \in 2..Len(s) :
        /\ s[k] = ":"
        /\ IsLetter(s[1])
        /\ \A j \in 2..(k - 1) :
             IsLetter(s[j]) \/ s[j] \in Digits \/ s[j] \in {"+", "-", "."}
        /\ k < Len(s)

\* `Article from ${url}: This is simulated content ...`
MockContent(urlString) == MockPrefix \o urlString \o MockSuffix

\* url ? 'url' : (isFileUpload ? 'file' : 'text')
AnalysisType(u, isFileUpload) ==
  IF Truthy(u) THEN "url" ELSE IF isFileUpload THEN "file" ELSE "text"

NoCall == [text |-> NoString, url |-> NoString, analysisType |-> Undefined]

NotSettled == [status |-> "none", value |-> Null]

NoPrev == [net |-> <<>>, ret |-> NotSettled]

\* ------------------------------------------------------------------------
\* localStorage.predictionHistory, the HistoryPanel that shows it and the
\* FeedbackDialog of the result on display
\* ------------------------------------------------------------------------

\* history.length > 50
HistoryLimit == 50

\* the page size of HistoryPanel
PageSize == 20

\* the content of localStorage is not followed: it stands for any history
UntrackedStorage ==
  [ tracked |-> FALSE, present |-> FALSE, entries |-> <<>>, deletions |-> 0 ]

\* localStorage without the predictionHistory item
\* (deletions counts the deleteItem calls made so far)
EmptyStorage ==
  [ tracked |-> TRUE, present |-> FALSE, entries |-> <<>>, deletions |-> 0 ]

\* h.slice(from, to), from and to counted from 0
Slice(h, from, to) ==
  IF from >= Len(h) THEN <<>> ELSE SubSeq(h, from + 1, Min(to, Len(h)))

\* the new entry appended and the newest dropped
PushHistoryAppend(entries, result) ==
  LET h == Append(entries, result)
  IN  IF Len(h) > HistoryLimit THEN SubSeq(h, 2, Len(h)) ELSE h

\* history.unshift(enhancedResult); if (history.length > 50) history.pop()
PushHistory(entries, result) ==
  LET h == <<result>> \o entries
  IN  IF Len(h) > HistoryLimit THEN SubSeq(h, 1, Len(h) - 1) ELSE h

\* JSON.parse(getItem || '[]'), unshift, pop, setItem
SaveToHistory(storage, result) ==
  IF ~storage.tracked THEN storage
  ELSE [ storage EXCEPT !.present = TRUE,
                        !.entries = PushHistory(@, result) ]

\* the write to the history made at every end of handleAnalyze
HistoryAfterAlways(storage, r, result) == SaveToHistory(storage, result)

\* handleAnalyze: the write to the history is in the try block, after the
\* await: it is made when predictFakeNews returned and skipped when it threw
HistoryAfter(storage, r, result) ==
  IF r.status = "returned" THEN SaveToHistory(storage, result) ELSE storage

\* the history tab is not open
NoPanel == [ mounted |-> FALSE ]

\* no request of HistoryPanel is pending
NoLoad == [ pageNum |-> 0, append |-> FALSE ]

\* HistoryPanel just mounted: useState initial values, then the effect shows
\* the first 20 local entries and calls loadHistory(), which is pending
\* (backend tells how the last request to the backend ended)
MountedPanel(storage) ==
  [ mounted    |-> TRUE,
    history    |-> IF storage.present THEN Slice(storage.entries, 0, PageSize)
                   ELSE <<>>,
    total      |-> IF storage.present THEN Len(storage.entries) ELSE 0,
    error      |-> Undefined,
    page       |-> 1,
    hasMore    |-> FALSE,
    filterType |-> "all",
    isLoading  |-> TRUE,
    pending    |-> [ pageNum |-> 1, append |-> FALSE ],
    backend    |-> "pending" ]

\* no feedback was submitted
NoFeedback == [ prediction_id |-> Undefined, user_correction |-> Undefined ]

\* no result on display: the dialog is not rendered (chosen tells whether the
\* user picked a radio button since the dialog was rendered)
NoDialog ==
  [ mounted |-> FALSE, open |-> FALSE, correction |-> Undefined,
    chosen |-> FALSE, sent |-> NoFeedback ]

\* useState(currentPrediction === 'fake' ? 'real' : 'fake')
InitialCorrection(currentPrediction) ==
  IF currentPrediction = "fake" THEN "real" ELSE "fake"

\* currentResult became null: the dialog is removed and its state is lost
Unmounted(d) ==
  [ d EXCEPT !.mounted = FALSE, !.correction = Undefined, !.chosen = FALSE ]

\* currentResult is set: the dialog is rendered; a dialog that is already
\* rendered keeps its state, its useState initialiser does not run again
Mounted(d, currentPrediction) ==
  IF d.mounted THEN d
  ELSE [ d EXCEPT !.mounted = TRUE,
                  !.correction = InitialCorrection(currentPrediction) ]

\* getModelStats was not called
NoStats == [ status |-> "none" ]

\* no score combination yet
NoCombination == [ pc |-> "idle" ]

\* no batch call yet
NoBatch ==
  [ pc |-> "idle", texts |-> <<>>, done |-> 0, timer |-> "none",
    status |-> 0, ret |-> NotSettled ]

Init ==
  /\ isAnalyzing = FALSE
  /\ currentResult = Null
  /\ call = NoCall
  /\ pc = "idle"
  /\ timer = "none"
  /\ status = 0
  /\ now = 0
  /\ net = <<>>
  /\ ret = NotSettled
  /\ trace = <<>>
  /\ prev = NoPrev
  /\ app = "AppContent"
  /\ engine = NoCombination
  /\ batch = NoBatch
  /\ localStorage = UntrackedStorage
  /\ panel = NoPanel
  /\ dialog = NoDialog
  /\ stats = NoStats

\* ------------------------------------------------------------------------
\* predictFakeNews: the synchronous pieces between its awaits
\* ------------------------------------------------------------------------

\* errors apiRequest throws
APIError(st, message) ==
  [ name    |-> "APIError",
    status  |-> st,
    message |-> IF message # Undefined THEN message
                ELSE "HTTP " \o ToString(st) ]

TimeoutError ==
  [ name    |-> "Error",
    message |-> "Request timed out. The backend may be slow to respond." ]

ConnectError ==
  [ name    |-> "Error",
    message |-> "Failed to connect to the API. Please check if the backend is running." ]

UrlNeedsBackendError ==
  [ name    |-> "Error",
    message |-> "URL analysis requires backend connection. Please check if the server is running." ]

\* the answered text request tagged with the version of the fallback
TextResultFallbackTag(c, response, t) ==
  [ id            |-> ToString(t),
    prediction    |-> IF ToLowerCase(response.prediction) = <<"f", "a", "k", "e">>
                      THEN "fake" ELSE "real",
    confidence    |-> response.confidence,
    explanation   |-> response.explanation,
    factors       |-> <<>>,
    sources       |-> <<>>,
    timestamp     |-> ToISOString(t),
    inputText     |-> c.text,
    modelVersion  |-> FallbackVersion,
    analysis_type |-> IF c.analysisType # Undefined THEN c.analysisType ELSE "text" ]

\* the object predictFakeNews returns for an answered text request
TextResult(c, response, t) ==
  [ id            |-> ToString(t),
    prediction    |-> IF ToLowerCase(response.prediction) = <<"f", "a", "k", "e">>
                      THEN "fake" ELSE "real",
    confidence    |-> response.confidence,
    explanation   |-> response.explanation,
    factors       |-> <<>>,
    sources       |-> <<>>,
    timestamp     |-> ToISOString(t),
    inputText     |-> c.text,
    modelVersion  |-> BackendVersion,
    analysis_type |-> IF c.analysisType # Undefined THEN c.analysisType ELSE "text" ]

\* the object predictFakeNews returns for an answered url request
UrlResult(response, t) ==
  [ response EXCEPT !.timestamp = IF response.timestamp # Undefined
                                  THEN response.timestamp
                                  ELSE ToISOString(t) ]

\* try branch after apiRequest returned the parsed body
PredictSuccess(c, response, t) ==
  [ status |-> "returned",
    value  |-> IF Truthy(c.url) THEN UrlResult(response, t)
               ELSE TextResult(c, response, t) ]

\* the catch branch rethrowing what apiRequest threw
PredictCatchRethrow(c, error, t) ==
  [ status |-> "rejected", value |-> error ]

\* the catch branch without the url test
PredictCatchAlwaysFallback(c, error, t) ==
  [ status |-> "returned", value |-> createFallbackPrediction(c.text, t) ]

\* the catch branch with the url test inverted
PredictCatchInverted(c, error, t) ==
  IF ~Truthy(c.url)
  THEN [ status |-> "rejected", value |-> UrlNeedsBackendError ]
  ELSE [ status |-> "returned", value |-> createFallbackPrediction(c.text, t) ]

\* catch branch after apiRequest threw
PredictCatch(c, error, t) ==
  IF Truthy(c.url)
  THEN [ status |-> "rejected", value |-> UrlNeedsBackendError ]
  ELSE [ status |-> "returned", value |-> createFallbackPrediction(c.text, t) ]

\* stages a call passes from the settling of apiRequest to its own settling
StagesOf(answered, r) ==
  IF answered THEN <<"MODEL_SCORED", "DONE">>
  ELSE IF r.status = "rejected" THEN <<"MODEL_UNAVAILABLE", "FAILED">>
  ELSE <<"MODEL_UNAVAILABLE", "FALLBACK_SCORED", "DONE">>

\* ------------------------------------------------------------------------
\* AppContent.handleAnalyze
\* ------------------------------------------------------------------------

\* the result shown when predictFakeNews rejected
ErrorResult(c, error, t) ==
  [ id            |-> "error-" \o ToString(t),
    prediction    |-> "inconclusive",
    confidence    |-> 0,
    explanation   |-> error.message,
    factors       |-> <<>>,
    sources       |-> <<>>,
    timestamp     |-> ToISOString(t),
    inputText     |-> IF Truthy(c.text) THEN c.text ELSE UrlFailedText,
    inputUrl      |-> c.url,
    modelVersion  |-> "unknown",
    analysis_type |-> c.analysisType ]

\* { ...result, analysis_type: analysisType }
EnhancedResult(c, result) ==
  [ f \in (DOMAIN result) \cup {"analysis_type"} |->
      IF f = "analysis_type" THEN c.analysisType ELSE result[f] ]

\* SimpleApp.handleAnalyze = async (text, analysisType = 'text'): NewsInput
\* calls it as onAnalyze(text, url, isFileUpload), so analysisType is the url
\* of a URL analysis and the default 'text' otherwise
SimpleAnalysisType(u) ==
  IF u = NoString THEN <<"t", "e", "x", "t">> ELSE u

\* SimpleApp's catch: setResult({ prediction: 'ERROR', confidence: 0, ... })
SimpleErrorResult ==
  [ prediction  |-> "ERROR",
    confidence  |-> 0,
    explanation |-> "Analysis failed. Please try again.",
    features    |-> "{}" ]

\* handleAnalyze up to the first await: the request is in flight
\* (SimpleApp: setIsLoading(true), the result on display stays, and the
\* call is predictFakeNews(text, analysisType))
StartAnalyze(t, u, isFileUpload) ==
  LET c == IF app = "SimpleApp"
           THEN [ text |-> t, url |-> SimpleAnalysisType(u),
                  analysisType |-> Undefined ]
           ELSE [ text |-> t, url |-> u,
                  analysisType |-> AnalysisType(u, isFileUpload) ]
  IN  /\ isAnalyzing' = TRUE
      /\ currentResult' = IF app = "SimpleApp" THEN currentResult ELSE Null
      /\ call' = c
      /\ pc' = "fetch"
      /\ timer' = "armed"
      /\ status' = 0
      /\ net' = <<>>
      /\ ret' = NotSettled
      /\ trace' = <<"RECEIVED">>
      /\ prev' = IF ret.status # "none" /\ call = c
                 THEN [net |-> net, ret |-> ret] ELSE NoPrev
      /\ dialog' = IF app = "SimpleApp" THEN dialog ELSE Unmounted(dialog)
      /\ UNCHANGED << localStorage, panel >>
      /\ UNCHANGED others

\* handleAnalyze after predictFakeNews settled with r
\* (SimpleApp: setResult(prediction), or setResult of its error object)
FinishAnalyze(r) ==
  /\ ret' = r
  /\ currentResult' = IF app = "SimpleApp"
                      THEN IF r.status = "returned"
                           THEN r.value ELSE SimpleErrorResult
                      ELSE IF r.status = "returned"
                           THEN EnhancedResult(call, r.value)
                           ELSE ErrorResult(call, r.value, now)
  /\ isAnalyzing' = FALSE
  /\ pc' = "idle"
  /\ prev' = IF prev.net = net' THEN prev ELSE NoPrev
  /\ IF app = "SimpleApp"
     THEN UNCHANGED views
     ELSE /\ localStorage' = HistoryAfter(localStorage, r, currentResult')
          /\ panel' = IF r.status = "returned" /\ panel.mounted
                      THEN MountedPanel(localStorage') ELSE panel
          /\ dialog' = Mounted(dialog, currentResult'.prediction)
  /\ UNCHANGED others

\* ------------------------------------------------------------------------
\* User actions on NewsInput; t and u are the contents of the text area
\* (typed, pasted or loaded from a file) and of the URL field at the click.
\* A handler that returns early only shows a toast and changes no state.
\* ------------------------------------------------------------------------

\* "Analyze Text" (not clickable while loading)
handleTextAnalyze(t) ==
  /\ ~isAnalyzing
  /\ IF ~Truthy(Trim(t))
     THEN UNCHANGED vars
     ELSE /\ StartAnalyze(t, NoString, FALSE)
          /\ UNCHANGED now

\* "Analyze URL" (not clickable while loading)
handleUrlAnalyze(u) ==
  /\ ~isAnalyzing
  /\ IF ~Truthy(Trim(u)) \/ ~isValidUrl(u)
     THEN UNCHANGED vars
     ELSE /\ StartAnalyze(MockContent(u), u, FALSE)
          /\ UNCHANGED now

\* "Analyze Uploaded File": rendered when text is truthy, disabled while loading
handleFileAnalyze(t) ==
  /\ ~isAnalyzing
  /\ Truthy(t)
  /\ StartAnalyze(t, NoString, TRUE)
  /\ UNCHANGED now

\* ------------------------------------------------------------------------
\* apiRequest: what the network and the timer can do to a pending request
\* ------------------------------------------------------------------------

\* the request body predictFakeNews sends
RequestBody(c) == [text |-> c.text, url |-> c.url]

\* apiRequest threw error: predictFakeNews catches, handleAnalyze finishes
RequestFailed(error, event) ==
  /\ net' = Append(net, event)
  /\ LET r == PredictCatch(call, error, now)
     IN  /\ trace' = trace \o StagesOf(FALSE, r)
         /\ FinishAnalyze(r)
  /\ UNCHANGED << call, status, now >>

\* fetch resolves with an ok response; the timer is cleared, the body awaited
FetchResolvesOk ==
  /\ pc = "fetch"
  /\ BackendAccepts(RequestBody(call))
  /\ timer' = "cleared"
  /\ status' = 200
  /\ pc' = "json"
  /\ net' = Append(net, <<"response", 200>>)
  /\ UNCHANGED << isAnalyzing, currentResult, call, now, ret, trace, prev,
                  others, views >>

\* fetch resolves with a response that is not ok
FetchResolvesError(st) ==
  /\ pc = "fetch"
  /\ timer' = "cleared"
  /\ status' = st
  /\ pc' = "errjson"
  /\ net' = Append(net, <<"response", st>>)
  /\ UNCHANGED << isAnalyzing, currentResult, call, now, ret, trace, prev,
                  others, views >>

\* fetch rejects: the backend cannot be reached
FetchRejects ==
  /\ pc = "fetch"
  /\ timer' = "cleared"
  /\ RequestFailed(ConnectError, <<"network error">>)

\* the 10 second timer fires: controller.abort(), fetch rejects with AbortError
TimerFires ==
  /\ timer = "armed"
  /\ pc = "fetch"
  /\ timer' = "cleared"
  /\ RequestFailed(TimeoutError, <<"timeout">>)

\* response.json() of an ok response resolves with the parsed body
JsonResolves(data) ==
  /\ pc = "json"
  /\ net' = Append(net, <<"body", data>>)
  /\ LET r == PredictSuccess(call, data, now)
     IN  /\ trace' = trace \o StagesOf(TRUE, r)
         /\ FinishAnalyze(r)
  /\ UNCHANGED << call, timer, status, now >>

\* response.json() of an ok response rejects: the body is not JSON
JsonRejects ==
  /\ pc = "json"
  /\ RequestFailed(ConnectError, <<"invalid body">>)
  /\ UNCHANGED timer

\* the error body is parsed (message present or absent)
ErrJsonResolves(message) ==
  /\ pc = "errjson"
  /\ RequestFailed(APIError(status, message), <<"error body", message>>)
  /\ UNCHANGED timer

\* the error body is not JSON: .catch(() => ({ message: 'Unknown error' }))
ErrJsonRejects ==
  /\ pc = "errjson"
  /\ RequestFailed(APIError(status, "Unknown error"), <<"invalid error body">>)
  /\ UNCHANGED timer

\* time passes
Tick ==
  /\ now < MaxClock
  /\ now' = now + 1
  /\ UNCHANGED << isAnalyzing, currentResult, call, pc, timer, status, net,
                  ret, trace, prev, others, views >>

Next ==
  \/ \E t \in Texts : handleTextAnalyze(t)
  \/ \E u \in Urls : handleUrlAnalyze(u)
  \/ \E t \in Texts : handleFileAnalyze(t)
  \/ FetchResolvesOk
  \/ \E st \in ErrorStatuses : FetchResolvesError(st)
  \/ FetchRejects
  \/ TimerFires
  \/ \E data \in (IF Truthy(call.url) THEN UrlResponses ELSE TextResponses) :
       JsonResolves(data)
  \/ JsonRejects
  \/ \E message \in ErrorMessages : ErrJsonResolves(message)
  \/ ErrJsonRejects
  \/ Tick

Spec == Init /\ [][Next]_vars

\* the same behaviours under the only progress the client schedules itself:
\* an armed abort timer fires unless the fetch settles first.  Nothing
\* obliges the network to settle a fetch or to deliver a body.
LiveSpec == Init /\ [][Next]_vars /\ WF_vars(TimerFires)

\* the same client with SimpleApp mounted as the root component
SimpleInit ==
  /\ isAnalyzing = FALSE
  /\ currentResult = Null
  /\ call = NoCall
  /\ pc = "idle"
  /\ timer = "none"
  /\ status = 0
  /\ now = 0
  /\ net = <<>>
  /\ ret = NotSettled
  /\ trace = <<>>
  /\ prev = NoPrev
  /\ app = "SimpleApp"
  /\ engine = NoCombination
  /\ batch = NoBatch
  /\ localStorage = UntrackedStorage
  /\ panel = NoPanel
  /\ dialog = NoDialog
  /\ stats = NoStats

SimpleSpec == SimpleInit /\ [][Next]_vars

\* ------------------------------------------------------------------------
\* The backend's score combination, _combine_predictions(bert_result,
\* features), and the adjustment rules it is documented with.  Its source is
\* not part of the repository extract: the amounts are the documented ones,
\* the shape of each adjustment and the total cap follow the specification.
\* ------------------------------------------------------------------------

\* largest number of citations in a feature vector of the model
MaxCitations == 3

\* a feature score this high triggers its adjustment
FeatureThreshold == 50

ClickbaitCap == 15
EmotionalCap == 10
BiasCap == 8
CitationsCap == 10
CitationBonus == 5
MaxTotalAdjustment == 30

\* scores of the 0..100 features
FeatureScores == {0, 55, 100}

FeatureVectors ==
  [ clickbait : FeatureScores,
    emotional : FeatureScores,
    bias      : FeatureScores,
    citations : 0..MaxCitations ]

\* the model's probability of "real" scaled to 0..100 or, when the model is
\* unavailable, the output of the rule-based classifier on the same scale
ModelOutputs ==
  [ available : BOOLEAN, confidence : {0, 50, 100} ]

Max(a, b) == IF a >= b THEN a ELSE b

\* Math.min(hi, Math.max(lo, x))
Clamp(x, lo, hi) == Min(hi, Max(lo, x))

\* a score above the threshold subtracts one point per point above it, at
\* most cap
Penalty(score, cap) ==
  IF score > FeatureThreshold THEN 0 - Min(cap, score - FeatureThreshold)
  ELSE 0

\* the four adjustments of the "real" confidence, each capped on its own
Adjustments(features) ==
  [ clickbait |-> Penalty(features.clickbait, ClickbaitCap),
    emotional |-> Penalty(features.emotional, EmotionalCap),
    bias      |-> Penalty(features.bias, BiasCap),
    citations |-> IF features.citations >= 1
                  THEN Min(CitationsCap, CitationBonus * features.citations)
                  ELSE 0 ]

SumOfAdjustments(a) == a.clickbait + a.emotional + a.bias + a.citations

\* the sum of the adjustments applied as it is
UncappedTotalAdjustment(features) ==
  SumOfAdjustments(Adjustments(features))

\* the sum of the adjustments, capped to +-MaxTotalAdjustment
TotalAdjustment(features) ==
  Clamp(SumOfAdjustments(Adjustments(features)),
        0 - MaxTotalAdjustment, MaxTotalAdjustment)

\* >= 60 real, <= 40 fake, inconclusive between
LabelOf(confidence) ==
  IF confidence >= 60 THEN "real"
  ELSE IF confidence <= 40 THEN "fake" ELSE "inconclusive"

\* combine(features, model) -> CombinedScore
combine(features, model) ==
  /\ engine' =
       LET confidence == Clamp(model.confidence + TotalAdjustment(features),
                               0, 100)
       IN  [ pc          |-> "combined",
             features    |-> features,
             model       |-> model,
             adjustments |-> Adjustments(features),
             total       |-> TotalAdjustment(features),
             confidence  |-> confidence,
             label       |-> LabelOf(confidence) ]
  /\ UNCHANGED << isAnalyzing, currentResult, call, pc, timer, status, now,
                  net, ret, trace, prev, app, batch, views, stats >>

CombineNext ==
  \E features \in FeatureVectors : \E model \in ModelOutputs :
    combine(features, model)

CombineSpec == Init /\ [][CombineNext]_vars

\* ------------------------------------------------------------------------
\* predictBatchFakeNews: one request to /api/batch-predict carries all the
\* texts; the backend analyses them one by one and answers when all are done
\* ------------------------------------------------------------------------

\* largest number of texts in a batch of the model
MaxBatch == 2

\* texts a batch is made of
BatchTexts == { MinLengthText, ScenarioB }

\* the lists of texts a caller can pass
BatchInputs ==
  UNION { [1..n -> BatchTexts] : n \in 0..MaxBatch }

\* the analyses the backend can answer with for text
BatchPredictionsOf(text) ==
  { [ r EXCEPT !.inputText = text ] :
      r \in { u \in UrlResponses :
                /\ u.prediction = "inconclusive"
                /\ u.confidence = 50
                /\ u.factors = <<>> } }

\* the predictions arrays the backend can answer with for texts
BatchResponses(texts) ==
  { preds \in [1..Len(texts) -> UNION { BatchPredictionsOf(t) : t \in BatchTexts }] :
      \A i \in 1..Len(texts) : preds[i] \in BatchPredictionsOf(texts[i]) }

\* response.predictions.map(pred => ({ ...pred, timestamp: pred.timestamp || now }))
BatchResult(predictions, t) ==
  [ i \in 1..Len(predictions) |->
      [ predictions[i] EXCEPT !.timestamp =
          IF predictions[i].timestamp # Undefined
          THEN predictions[i].timestamp ELSE ToISOString(t) ] ]

\* what a batch call leaves alone
notBatch ==
  << isAnalyzing, currentResult, call, pc, timer, status, now, net, ret,
     trace, prev, app, engine, views, stats >>

\* predictBatchFakeNews(texts) up to the await of fetch: the timer is armed
predictBatchFakeNews(texts) ==
  /\ batch.pc \in {"idle", "settled"}
  /\ batch' = [ pc |-> "fetch", texts |-> texts, done |-> 0,
                timer |-> "armed", status |-> 0, ret |-> NotSettled ]
  /\ UNCHANGED notBatch

\* the backend completes the analysis of one more text of the batch
BackendAnalysesOne ==
  /\ batch.pc = "fetch"
  /\ batch.done < Len(batch.texts)
  /\ batch' = [ batch EXCEPT !.done = @ + 1 ]
  /\ UNCHANGED notBatch

\* the call rejects with error: predictBatchFakeNews has no catch, the error
\* goes to the caller and nothing else does
BatchRejects(error) ==
  /\ batch' = [ batch EXCEPT !.pc = "settled", !.timer = "cleared",
                             !.ret = [status |-> "rejected", value |-> error] ]
  /\ UNCHANGED notBatch

\* all texts are analysed and fetch resolves with an ok response
BatchFetchResolvesOk ==
  /\ batch.pc = "fetch"
  /\ batch.done = Len(batch.texts)
  /\ batch' = [ batch EXCEPT !.pc = "json", !.timer = "cleared",
                             !.status = 200 ]
  /\ UNCHANGED notBatch

\* the backend fails, part-way or not: fetch resolves with a response that
\* is not ok
BatchFetchResolvesError(st) ==
  /\ batch.pc = "fetch"
  /\ batch' = [ batch EXCEPT !.pc = "errjson", !.timer = "cleared",
                             !.status = st ]
  /\ UNCHANGED notBatch

\* the connection fails, part-way or not: fetch rejects
BatchFetchRejects ==
  /\ batch.pc = "fetch"
  /\ BatchRejects(ConnectError)

\* the 10 second timer cancels the request, part-way or not
BatchTimerFires ==
  /\ batch.pc = "fetch"
  /\ batch.timer = "armed"
  /\ BatchRejects(TimeoutError)

\* response.json() resolves with { predictions }
BatchJsonResolves(predictions) ==
  /\ batch.pc = "json"
  /\ batch' = [ batch EXCEPT !.pc = "settled",
                             !.ret = [ status |-> "returned",
                                       value  |-> BatchResult(predictions, now) ] ]
  /\ UNCHANGED notBatch

\* response.json() rejects: the body is not JSON
BatchJsonRejects ==
  /\ batch.pc = "json"
  /\ BatchRejects(ConnectError)

\* the error body is parsed (message present or absent)
BatchErrJsonResolves(message) ==
  /\ batch.pc = "errjson"
  /\ BatchRejects(APIError(batch.status, message))

\* the error body is not JSON
BatchErrJsonRejects ==
  /\ batch.pc = "errjson"
  /\ BatchRejects(APIError(batch.status, "Unknown error"))

BatchNext ==
  \/ \E texts \in BatchInputs : predictBatchFakeNews(texts)
  \/ BackendAnalysesOne
  \/ BatchFetchResolvesOk
  \/ \E st \in ErrorStatuses : BatchFetchResolvesError(st)
  \/ BatchFetchRejects
  \/ BatchTimerFires
  \/ \E predictions \in BatchResponses(batch.texts) :
       BatchJsonResolves(predictions)
  \/ BatchJsonRejects
  \/ \E message \in ErrorMessages : BatchErrJsonResolves(message)
  \/ BatchErrJsonRejects
  \/ Tick

BatchSpec == Init /\ [][BatchNext]_vars

\* ------------------------------------------------------------------------
\* The history: GET /history through getPredictionHistory, HistoryPanel,
\* handleViewHistoryResult, the feedback dialog and getModelStats
\* ------------------------------------------------------------------------

\* largest number of results one session of the model adds to the history
MaxStored == 1

\* largest number of rows one session of the model deletes
MaxDeletes == 1

\* Date.now() when the session of the model starts: after the 50 instants
\* of the earlier session
SessionStart == HistoryLimit

\* the history an earlier session left, which started from an empty history:
\* 50 fallback analyses of a neutral text, made at the instants 49 (the
\* newest, first) down to 0
StoredEarlier ==
  [ k \in 1..HistoryLimit |->
      EnhancedResult(
        [ text |-> MinLengthText, url |-> NoString, analysisType |-> "text" ],
        createFallbackPrediction(MinLengthText, SessionStart - k)) ]

StoredIds == { StoredEarlier[k].id : k \in 1..Len(StoredEarlier) }

\* rows of the backend's history table, as GET /history returns them
BackendRows ==
  << [ id |-> 3, prediction |-> <<"F", "A", "K", "E">>, confidence |-> 100,
       explanation |-> BackendExplanation,
       created_at |-> "2024-01-03T12:00:00Z", text |-> OneFakeText,
       analysis_type |-> "text" ],
     [ id |-> 2, prediction |-> <<"R", "E", "A", "L">>, confidence |-> 50,
       explanation |-> BackendExplanation,
       created_at |-> "2024-01-02T12:00:00Z", text |-> MinLengthText,
       analysis_type |-> "url" ],
     [ id |-> 1,
       prediction |-> <<"i", "n", "c", "o", "n", "c", "l", "u", "s", "i", "v", "e">>,
       confidence |-> 50, explanation |-> BackendExplanation,
       created_at |-> "2024-01-01T12:00:00Z", text |-> MinLengthText,
       analysis_type |-> "text" ] >>

\* what the backend can answer to GET /history
BackendHistories == { [ ok |-> TRUE, history |-> BackendRows ] }

\* the request of getPredictionHistory or of getModelStats failed
RequestFails == [ ok |-> FALSE ]

\* the request of submitFeedback is answered with a 2xx status
RequestSucceeds == [ ok |-> TRUE ]

\* response.history.map(item => ({ id: item.id?.toString(), prediction:
\* item.prediction?.toLowerCase() === 'fake' ? 'fake' : 'real', ... }))
HistoryItem(item) ==
  [ id            |-> ToString(item.id),
    prediction    |-> IF ToLowerCase(item.prediction) = <<"f", "a", "k", "e">>
                      THEN "fake" ELSE "real",
    confidence    |-> item.confidence,
    explanation   |-> item.explanation,
    factors       |-> <<>>,
    sources       |-> <<>>,
    timestamp     |-> item.created_at,
    inputText     |-> item.text,
    modelVersion  |-> BackendVersion,
    analysis_type |-> item.analysis_type ]

\* getPredictionHistory(limit, offset): the mapped rows of the backend or,
\* when the request fails, the page of the local history; it never rejects
getPredictionHistory(outcome, limit, offset, storage) ==
  IF outcome.ok
  THEN [ status |-> "returned",
         value  |-> [ predictions |-> [ i \in 1..Len(outcome.history) |->
                                          HistoryItem(outcome.history[i]) ],
                      total       |-> Len(outcome.history),
                      page        |-> 1,
                      perPage     |-> Len(outcome.history) ] ]
  ELSE IF storage.present
  THEN [ status |-> "returned",
         value  |-> [ predictions |-> Slice(storage.entries, offset,
                                            offset + limit),
                      total       |-> Len(storage.entries),
                      page        |-> (offset \div limit) + 1,
                      perPage     |-> limit ] ]
  ELSE [ status |-> "returned",
         value  |-> [ predictions |-> <<>>, total |-> 0, page |-> 1,
                      perPage |-> limit ] ]

\* loadHistory, try branch: the response is shown, the error is cleared
LoadHistoryTry(p, response) ==
  LET offset == (p.pending.pageNum - 1) * PageSize
  IN  [ p EXCEPT
          !.history   = IF p.pending.append THEN @ \o response.predictions
                        ELSE response.predictions,
          !.total     = response.total,
          !.page      = p.pending.pageNum,
          !.hasMore   = /\ Len(response.predictions) = PageSize
                        /\ offset + PageSize < response.total,
          !.error     = Undefined,
          !.isLoading = FALSE,
          !.pending   = NoLoad ]

\* the offline indication of HistoryPanel
OfflineMessage == "Using local data - backend unavailable"

\* loadHistory, catch branch: the page of the local history, and the
\* offline indication when the local history is not empty
LoadHistoryCatch(p, storage) ==
  LET startIndex == (p.pending.pageNum - 1) * PageSize
      endIndex   == startIndex + PageSize
      pageData   == Slice(storage.entries, startIndex, endIndex)
  IN  IF storage.present
      THEN [ p EXCEPT
               !.history   = IF p.pending.append THEN @ \o pageData
                             ELSE pageData,
               !.total     = Len(storage.entries),
               !.hasMore   = endIndex < Len(storage.entries),
               !.error     = IF Len(storage.entries) > 0
                             THEN OfflineMessage
                             ELSE Undefined,
               !.isLoading = FALSE,
               !.pending   = NoLoad ]
      ELSE [ p EXCEPT !.history = <<>>, !.total = 0, !.hasMore = FALSE,
                      !.isLoading = FALSE, !.pending = NoLoad ]

\* item.analysis_type, else 'url' for an item with a url, else 'text'
getAnalysisType(item) ==
  IF "analysis_type" \in DOMAIN item /\ item.analysis_type # Undefined
  THEN item.analysis_type
  ELSE IF "inputUrl" \in DOMAIN item /\ Truthy(item.inputUrl) THEN "url"
  ELSE "text"

\* positions in p.history of the rows on display, in their order
FilteredPositions(p) ==
  { i \in 1..Len(p.history) :
      p.filterType = "all" \/ getAnalysisType(p.history[i]) = p.filterType }

\* the n-th smallest element of the set S of numbers
RECURSIVE Nth(_, _)
Nth(S, n) ==
  LET m == CHOOSE x \in S : \A y \in S : x <= y
  IN  IF n = 1 THEN m ELSE Nth(S \ {m}, n - 1)

\* history.filter(item => filterType === 'all' || type of item === filterType)
filteredHistory(p) ==
  [ n \in 1..Cardinality(FilteredPositions(p)) |->
      p.history[Nth(FilteredPositions(p), n)] ]

\* h.filter((_, i) => i !== index), index counted from 1 here
RemoveAt(h, index) ==
  [ i \in 1..(Len(h) - (IF index \in 1..Len(h) THEN 1 ELSE 0)) |->
      IF i < index THEN h[i] ELSE h[i + 1] ]

\* h.filter(x => x.id !== id)
RECURSIVE RemoveId(_, _)
RemoveId(h, id) ==
  IF h = <<>> THEN <<>>
  ELSE IF Head(h).id = id THEN RemoveId(Tail(h), id)
  ELSE <<Head(h)>> \o RemoveId(Tail(h), id)

\* what the history actions leave alone
analysis ==
  << isAnalyzing, call, pc, timer, status, now, net, ret, trace, prev, app,
     engine, batch >>

\* the history tab is selected: HistoryPanel mounts
OpenHistoryTab ==
  /\ app = "AppContent"
  /\ localStorage.tracked
  /\ ~panel.mounted
  /\ ~dialog.open
  /\ panel' = MountedPanel(localStorage)
  /\ UNCHANGED << analysis, currentResult, localStorage, dialog, stats >>

\* another tab is selected: HistoryPanel unmounts
LeaveHistoryTab ==
  /\ panel.mounted
  /\ panel' = NoPanel
  /\ UNCHANGED << analysis, currentResult, localStorage, dialog, stats >>

\* the pending getPredictionHistory call of loadHistory settles
HistoryLoads(outcome) ==
  /\ panel.mounted
  /\ panel.pending.pageNum > 0
  /\ LET r == getPredictionHistory(outcome, PageSize,
                                   (panel.pending.pageNum - 1) * PageSize,
                                   localStorage)
         shown == IF r.status = "returned"
                  THEN LoadHistoryTry(panel, r.value)
                  ELSE LoadHistoryCatch(panel, localStorage)
     IN  panel' = [ shown EXCEPT
                      !.backend = IF outcome.ok THEN "answered" ELSE "failed" ]
  /\ UNCHANGED << analysis, currentResult, localStorage, dialog, stats >>

\* loadHistory(pageNum, append) up to its await
loadHistory(pageNum, append) ==
  /\ panel' = [ panel EXCEPT !.isLoading = TRUE, !.error = Undefined,
                             !.pending = [ pageNum |-> pageNum,
                                           append |-> append ],
                             !.backend = "pending" ]
  /\ UNCHANGED << analysis, currentResult, localStorage, dialog, stats >>

\* "Refresh" (disabled while loading)
Refresh ==
  /\ panel.mounted
  /\ Len(panel.history) > 0
  /\ ~panel.isLoading
  /\ loadHistory(1, FALSE)

\* "Load More" (rendered when hasMore, disabled while loading)
loadMore ==
  /\ panel.mounted
  /\ Len(panel.history) > 0
  /\ panel.hasMore
  /\ ~panel.isLoading
  /\ loadHistory(panel.page + 1, TRUE)

\* one of the four filter buttons
setFilterType(f) ==
  /\ panel.mounted
  /\ Len(panel.history) > 0
  /\ panel' = [ panel EXCEPT !.filterType = f ]
  /\ UNCHANGED << analysis, currentResult, localStorage, dialog, stats >>

\* the storage after deleteItem(item, index)
DeleteFromStorage(storage, item) ==
  IF storage.present
  THEN [ storage EXCEPT !.entries = RemoveId(@, item.id),
                        !.deletions = @ + 1 ]
  ELSE [ storage EXCEPT !.deletions = @ + 1 ]

\* the trash button of the index-th row on display: deleteItem(item, index)
\* with the row's item and the row's index in filteredHistory
deleteItem(index) ==
  /\ panel.mounted
  /\ index \in 1..Len(filteredHistory(panel))
  /\ LET item == filteredHistory(panel)[index]
     IN  /\ panel' = [ panel EXCEPT !.history = RemoveAt(@, index),
                                    !.total = @ - 1 ]
         /\ localStorage' = DeleteFromStorage(localStorage, item)
  /\ UNCHANGED << analysis, currentResult, dialog, stats >>

\* "Clear All", confirmed
clearHistory ==
  /\ panel.mounted
  /\ Len(panel.history) > 0
  /\ localStorage' = [ localStorage EXCEPT !.present = FALSE,
                                           !.entries = <<>> ]
  /\ panel' = [ panel EXCEPT !.history = <<>>, !.total = 0 ]
  /\ UNCHANGED << analysis, currentResult, dialog, stats >>

\* the eye button of the index-th row on display: handleViewHistoryResult
handleViewHistoryResult(index) ==
  /\ panel.mounted
  /\ index \in 1..Len(filteredHistory(panel))
  /\ currentResult' = filteredHistory(panel)[index]
  /\ panel' = NoPanel
  /\ dialog' = Mounted(dialog, currentResult'.prediction)
  /\ UNCHANGED << analysis, localStorage, stats >>

\* "Provide Feedback on This Analysis" of ResultDisplay: setFeedbackDialogOpen(true)
OpenFeedback ==
  /\ app = "AppContent"
  /\ localStorage.tracked
  /\ currentResult # Null
  /\ ~panel.mounted
  /\ dialog.mounted
  /\ ~dialog.open
  /\ dialog' = [ dialog EXCEPT !.open = TRUE ]
  /\ UNCHANGED << analysis, currentResult, localStorage, panel, stats >>

\* one of the two radio buttons of the dialog
setCorrection(value) ==
  /\ dialog.mounted
  /\ dialog.open
  /\ dialog' = [ dialog EXCEPT !.correction = value, !.chosen = TRUE ]
  /\ UNCHANGED << analysis, currentResult, localStorage, panel, stats >>

\* the body submitFeedback posts for the dialog's props and state; the
\* dialog is rendered with predictionId={currentResult.timestamp}
FeedbackBody(result, d) ==
  [ prediction_id |-> result.timestamp, user_correction |-> d.correction ]

\* "Submit Feedback": handleSubmit; the dialog closes when the request succeeds
handleSubmit(outcome) ==
  /\ dialog.mounted
  /\ dialog.open
  /\ currentResult # Null
  /\ dialog' = [ dialog EXCEPT !.sent = FeedbackBody(currentResult, dialog),
                               !.open = ~outcome.ok ]
  /\ UNCHANGED << analysis, currentResult, localStorage, panel, stats >>

\* the dialog is dismissed: onOpenChange(false)
CloseFeedback ==
  /\ dialog.open
  /\ dialog' = [ dialog EXCEPT !.open = FALSE ]
  /\ UNCHANGED << analysis, currentResult, localStorage, panel, stats >>

\* what the backend can answer to GET /stats
BackendStats ==
  { [ ok                |-> TRUE,
      total_predictions |-> 3,
      by_prediction     |-> [ FAKE |-> 1, REAL |-> 1, inconclusive |-> 1 ],
      by_analysis_type  |-> [ text |-> 2, url |-> 1, file |-> 0 ] ],
    [ ok                |-> TRUE,
      total_predictions |-> 0,
      by_prediction     |-> [ FAKE |-> 0, REAL |-> 0, inconclusive |-> 0 ],
      by_analysis_type  |-> [ text |-> 0, url |-> 0, file |-> 0 ] ] }

\* history.filter(h => h.prediction === label).length
CountPrediction(h, label) ==
  Cardinality({ i \in 1..Len(h) : h[i].prediction = label })

RECURSIVE SumConfidence(_)
SumConfidence(h) ==
  IF h = <<>> THEN 0 ELSE Head(h).confidence + SumConfidence(Tail(h))

\* Math.round(avgConfidence * 10) / 10, in tenths
RoundedAverage(h) == (20 * SumConfidence(h) + Len(h)) \div (2 * Len(h))

\* the statistics with the inconclusive entries left out of the counts
StatsFromHistoryTwoLabels(h) ==
  [ totalPredictions        |-> Len(h),
    fakePredictions         |-> CountPrediction(h, "fake"),
    realPredictions         |-> CountPrediction(h, "real"),
    inconclusivePredictions |-> 0,
    avgConfidence           |-> IF h = <<>> THEN 0 ELSE RoundedAverage(h),
    modelVersion            |-> FallbackVersion,
    uptimeHours             |-> IF h = <<>> THEN 0 ELSE 1 ]

\* getModelStats, catch branch: the statistics of the local history
StatsFromHistory(h) ==
  [ totalPredictions        |-> Len(h),
    fakePredictions         |-> CountPrediction(h, "fake"),
    realPredictions         |-> CountPrediction(h, "real"),
    inconclusivePredictions |-> CountPrediction(h, "inconclusive"),
    avgConfidence           |-> IF h = <<>> THEN 0 ELSE RoundedAverage(h),
    modelVersion            |-> FallbackVersion,
    uptimeHours             |-> IF h = <<>> THEN 0 ELSE 1 ]

\* getModelStats: the backend's statistics or, when the request fails, those
\* of the local history; it never rejects
getModelStats(outcome, storage) ==
  IF outcome.ok
  THEN [ status |-> "returned",
         value  |-> [ totalPredictions        |-> outcome.total_predictions,
                      fakePredictions         |-> outcome.by_prediction.FAKE,
                      realPredictions         |-> outcome.by_prediction.REAL,
                      inconclusivePredictions |-> outcome.by_prediction.inconclusive,
                      textPredictions         |-> outcome.by_analysis_type.text,
                      urlPredictions          |-> outcome.by_analysis_type.url,
                      filePredictions         |-> outcome.by_analysis_type.file,
                      avgConfidence           |-> 750,
                      modelVersion            |-> BackendVersion,
                      uptimeHours             |-> 24 ] ]
  ELSE [ status |-> "returned", value |-> StatsFromHistory(storage.entries) ]

\* Dashboard: loadDashboardData calls getModelStats, which settles; ok tells
\* whether the request succeeded and stored is the number of entries the
\* local history held at that moment
LoadStats(outcome) ==
  /\ app = "AppContent"
  /\ localStorage.tracked
  /\ ~panel.mounted
  /\ ~dialog.open
  /\ LET r == getModelStats(outcome, localStorage)
     IN  stats' = [ status |-> r.status, value |-> r.value,
                    ok     |-> outcome.ok,
                    stored |-> Len(localStorage.entries) ]
  /\ UNCHANGED << analysis, currentResult, localStorage, panel, dialog >>

\* inputs of the session of the model
HistoryTexts == { OneFakeText }

HistoryUrls == { ArticleUrl }

HistoryFiles == { MinLengthText }

HistoryResponses ==
  IF Truthy(call.url)
  THEN { u \in UrlResponses : /\ u.prediction = "inconclusive"
                              /\ u.confidence = 50
                              /\ u.factors = <<>>
                              /\ u.timestamp = Undefined }
  ELSE { r \in TextResponses : /\ r.prediction = <<"R", "E", "A", "L">>
                               /\ r.confidence = 100 }

\* the filters the user of the model selects
HistoryFilters == { "all", "url" }

\* largest row index the user of the model clicks on
MaxRow == 2

\* number of entries of the local history that this session added
NewEntries ==
  Cardinality({ i \in 1..Len(localStorage.entries) :
                  localStorage.entries[i].id \notin StoredIds })

\* the analyze tab is in front and the session may still add a result
CanAnalyze ==
  /\ ~panel.mounted
  /\ ~dialog.open
  /\ NewEntries < MaxStored

HistoryInit ==
  /\ isAnalyzing = FALSE
  /\ currentResult = Null
  /\ call = NoCall
  /\ pc = "idle"
  /\ timer = "none"
  /\ status = 0
  /\ now = SessionStart
  /\ net = <<>>
  /\ ret = NotSettled
  /\ trace = <<>>
  /\ prev = NoPrev
  /\ app = "AppContent"
  /\ engine = NoCombination
  /\ batch = NoBatch
  /\ localStorage \in
       { EmptyStorage,
         [ EmptyStorage EXCEPT !.present = TRUE, !.entries = StoredEarlier ] }
  /\ panel = NoPanel
  /\ dialog = NoDialog
  /\ stats = NoStats

\* the user analyses
Analyses ==
  \/ \E t \in HistoryTexts : CanAnalyze /\ handleTextAnalyze(t)
  \/ \E u \in HistoryUrls : CanAnalyze /\ handleUrlAnalyze(u)
  \/ FetchResolvesOk
  \/ FetchRejects
  \/ \E data \in HistoryResponses : JsonResolves(data)

\* the list of the history tab is on display and no request is pending
Loaded == panel.mounted /\ ~panel.isLoading

\* a session of analyses and of the history tab: the user opens the tab
\* between analyses and acts on the list once it is loaded
HistoryNext ==
  \/ Analyses
  \/ pc = "idle" /\ OpenHistoryTab
  \/ LeaveHistoryTab
  \/ \E outcome \in BackendHistories \cup {RequestFails} : HistoryLoads(outcome)
  \/ Refresh
  \/ loadMore
  \/ \E f \in HistoryFilters : Loaded /\ setFilterType(f)
  \/ \E index \in 1..MaxRow :
       Loaded /\ localStorage.deletions < MaxDeletes /\ deleteItem(index)
  \/ Loaded /\ clearHistory

\* a session that starts with the history of the earlier session
PanelInit ==
  /\ HistoryInit
  /\ localStorage.present

HistorySpec == PanelInit /\ [][HistoryNext]_vars

\* a session that starts with no local history
FeedbackInit ==
  /\ HistoryInit
  /\ localStorage = EmptyStorage

\* a session of analyses, of results viewed from the history and of feedback
FeedbackNext ==
  \/ Analyses
  \/ OpenHistoryTab
  \/ LeaveHistoryTab
  \/ \E outcome \in BackendHistories \cup {RequestFails} : HistoryLoads(outcome)
  \/ \E index \in 1..MaxRow : handleViewHistoryResult(index)
  \/ OpenFeedback
  \/ \E value \in {"real", "fake"} : setCorrection(value)
  \/ \E outcome \in {RequestSucceeds, RequestFails} : handleSubmit(outcome)
  \/ CloseFeedback

FeedbackSpec == FeedbackInit /\ [][FeedbackNext]_vars

\* a session of analyses and of the dashboard
StatsNext ==
  \/ Analyses
  \/ \E t \in HistoryFiles : CanAnalyze /\ handleFileAnalyze(t)
  \/ \E outcome \in BackendStats \cup {RequestFails} : LoadStats(outcome)

StatsSpec == HistoryInit /\ [][StatsNext]_vars

\* ------------------------------------------------------------------------
\* Vocabulary of the properties
\* ------------------------------------------------------------------------

Returned == ret.status = "returned"

Rejected == ret.status = "rejected"

IsFallback(r) == r.modelVersion = FallbackVersion

FailureEvents ==
  { "network error", "timeout", "invalid body", "error body",
    "invalid error body" }

\* apiRequest threw for the latest call
NetFailed == net # <<>> /\ net[Len(net)][1] \in FailureEvents

\* apiRequest returned the parsed body for the latest call
NetAnswered == net # <<>> /\ net[Len(net)][1] = "body"

IsPrefix(s, p) == Len(s) <= Len(p) /\ SubSeq(p, 1, Len(s)) = s

\* a text the backend would accept: at least 10 characters once trimmed
ValidText(t) == Len(Trim(t)) >= MinTextLength

\* r1 and r2 have the same fields and agree on all of them but those of except
EqualExcept(r1, r2, except) ==
  /\ DOMAIN r1 = DOMAIN r2
  /\ \A f \in (DOMAIN r1) \ except : r1[f] = r2[f]

\* ------------------------------------------------------------------------
\* Properties
\* ------------------------------------------------------------------------

\* C1: the confidence of every result predictFakeNews returns, from the
\* backend as well as from createFallbackPrediction, lies in [0,100].
C1_ConfidenceInRange ==
  Returned => ret.value.confidence \in 0..100

\* a fallback result whose confidence was cut down to the cap
C1_Witness ==
  /\ Returned
  /\ IsFallback(ret.value)
  /\ call.text = SixFakeText
  /\ ret.value.confidence = 85

C3_InconclusiveBelowThreshold ==
  (Returned /\ ValidText(call.text)) =>
    (ret.value.prediction = "inconclusive" <=> ret.value.confidence < 60)

\* C4: when the request of a text analysis fails (network error, timeout,
\* error response, unreadable body) predictFakeNews still returns a result,
\* and its model version is the one of the fallback.
C4_FallbackOnFailure ==
  (NetFailed /\ ~Truthy(call.url)) =>
    /\ Returned
    /\ ret.value.modelVersion = FallbackVersion
    /\ currentResult # Null
    /\ currentResult.modelVersion = FallbackVersion

\* a text analysis whose request timed out
C4_Witness ==
  /\ net = << <<"timeout">> >>
  /\ ~Truthy(call.url)
  /\ Returned
  /\ IsFallback(ret.value)

C6_OnlyValidationErrors ==
  Rejected => ret.value.name \in {"ValidationError", "ConfigurationError"}

\* C6 amended: a failed request of a call without url is never raised (the
\* call returns a result); a failed request of a call with a url is raised
\* as the 'URL analysis requires backend connection' error, and nothing
\* else is ever raised.
C6_FailuresDegradeExceptUrl ==
  /\ (NetFailed /\ ~Truthy(call.url)) => Returned
  /\ (NetFailed /\ Truthy(call.url)) =>
       (Rejected /\ ret.value = UrlNeedsBackendError)
  /\ Rejected => (NetFailed /\ Truthy(call.url))

\* a url analysis whose request met an error response
C6_Witness ==
  /\ Truthy(call.url)
  /\ Len(net) = 2
  /\ net[2][1] = "error body"
  /\ Rejected

\* C7 as stated, in the form a finite run refutes: a request that has not
\* settled is still covered by the abort timer (so that it is aborted and
\* reported unavailable instead of blocking the analysis).
C7_TimerCoversRequest ==
  pc \in {"fetch", "json", "errjson"} => timer = "armed"

\* C8 as stated: two analyses with the same arguments and the same network
\* behaviour return results equal in every field except timestamp.
C8_EqualExceptTimestamp ==
  (Returned /\ prev.ret.status = "returned") =>
    EqualExcept(prev.ret.value, ret.value, {"timestamp"})

\* C8 amended: such results are equal in every field except timestamp and
\* id (both read from the clock); the explanation in particular is equal.
C8_EqualExceptClockFields ==
  (Returned /\ prev.ret.status = "returned") =>
    /\ EqualExcept(prev.ret.value, ret.value, {"timestamp", "id"})
    /\ prev.ret.value.explanation = ret.value.explanation

\* the same text analysed twice by the fallback at different instants
C8_Witness ==
  /\ Returned
  /\ prev.ret.status = "returned"
  /\ IsFallback(ret.value)
  /\ prev.ret.value.id # ret.value.id

\* the order of stages C9 states
ClaimedPaths ==
  { <<"RECEIVED", "NORMALIZED", "FEATURES_EXTRACTED", "MODEL_SCORED",
      "COMBINED", "EXPLAINED", "DONE">>,
    <<"RECEIVED", "NORMALIZED", "FEATURES_EXTRACTED", "MODEL_UNAVAILABLE",
      "FALLBACK_SCORED", "COMBINED", "EXPLAINED", "DONE">>,
    <<"RECEIVED", "FAILED">> }

\* the stages predictFakeNews itself goes through
ClientStages ==
  { "RECEIVED", "MODEL_SCORED", "MODEL_UNAVAILABLE", "FALLBACK_SCORED",
    "DONE", "FAILED" }

InClientStages(s) == s \in ClientStages

ClientPaths ==
  { <<"RECEIVED", "MODEL_SCORED", "DONE">>,
    <<"RECEIVED", "MODEL_UNAVAILABLE", "FALLBACK_SCORED", "DONE">>,
    <<"RECEIVED", "MODEL_UNAVAILABLE", "FAILED">> }

C10_NoPredictionForInvalidText ==
  Returned => ValidText(call.text)

\* the three labels a PredictionResult may carry
Labels == {"real", "fake", "inconclusive"}

\* C11: every return of predictFakeNews, and every value a root component
\* stores as the current result (the one it builds when an analysis fails
\* included), has prediction in {real, fake, inconclusive}.
C11_PredictionIsLabel ==
  /\ Returned => ret.value.prediction \in Labels
  /\ currentResult # Null => currentResult.prediction \in Labels

\* C12 as stated: the analysis of the Scenario A text yields fake with a
\* confidence of at most 40 (here on the fallback path, the one the client
\* computes itself).
C12_ScenarioAFakeLowConfidence ==
  (Returned /\ call.text = ScenarioA /\ IsFallback(ret.value)) =>
    (ret.value.prediction = "fake" /\ ret.value.confidence <= 40)

\* C12, amended: the fallback analysis of the Scenario A text yields fake
\* with confidence 85, the capped certainty of the label (four fake
\* indicators match, no real indicator does).
C12_ScenarioAFake ==
  (Returned /\ call.text = ScenarioA /\ IsFallback(ret.value)) =>
    (ret.value.prediction = "fake" /\ ret.value.confidence = 85)

C12_Witness ==
  /\ Returned
  /\ call.text = ScenarioA
  /\ IsFallback(ret.value)
  /\ ret.value.prediction = "fake"
  /\ ret.value.factors[1].description
       = "Simple keyword-based analysis (4 fake indicators, 0 real indicators)"

\* C13: the analysis of the Scenario B text yields real with a confidence of
\* at least 60 (on the fallback path, the one the client computes itself).
C13_ScenarioBReal ==
  (Returned /\ call.text = ScenarioB /\ IsFallback(ret.value)) =>
    (ret.value.prediction = "real" /\ ret.value.confidence >= 60)

C13_Witness ==
  /\ Returned
  /\ call.text = ScenarioB
  /\ IsFallback(ret.value)
  /\ ret.value.prediction = "real"
  /\ ret.value.confidence = 85

\* text has exactly the minimum valid length and matches no indicator
NeutralMinLength(text) ==
  /\ Len(Trim(text)) = MinTextLength
  /\ FilterCount(fakeIndicators, ToLowerCase(text)) = 0
  /\ FilterCount(realIndicators, ToLowerCase(text)) = 0

\* the backend answered the latest text request with the verdict inconclusive
BackendSaidInconclusive ==
  /\ ~Truthy(call.url)
  /\ net # <<>>
  /\ net[Len(net)][1] = "body"
  /\ ToLowerCase(net[Len(net)][2].prediction)
       = <<"i", "n", "c", "o", "n", "c", "l", "u", "s", "i", "v", "e">>

\* C14 as stated: a neutral text of exactly the minimum valid length yields
\* inconclusive, whether the verdict is the backend's (which finds it
\* inconclusive) or the fallback's.
C14_NeutralIsInconclusive ==
  (/\ Returned
   /\ NeutralMinLength(call.text)
   /\ IsFallback(ret.value) \/ BackendSaidInconclusive)
    => ret.value.prediction = "inconclusive"

\* C16 as stated: the impact tag of each factor follows its contribution:
\* positive when it supports a real verdict, negative when it supports a fake
\* verdict, neutral when it contributes nothing (the verdict is inconclusive
\* because no indicator decided).
C16_ImpactFollowsContribution ==
  (Returned /\ ValidText(call.text) /\ IsFallback(ret.value)) =>
    \A i \in 1..Len(ret.value.factors) :
      ret.value.factors[i].impact =
        ( IF ret.value.prediction = "real" THEN "positive"
          ELSE IF ret.value.prediction = "fake" THEN "negative"
          ELSE "neutral" )

\* C17 as stated: the sources of every result are the same fixed list of
\* fact-check URLs, whichever path produced the result.
C17_SourcesFixed ==
  (Returned /\ ValidText(call.text)) => ret.value.sources = FallbackSources

\* ResultDisplay: {Math.round(result.confidence * 100)}% (the confidences of
\* the model are integers, which Math.round leaves as they are)
ResultDisplayPercent(result) == result.confidence * 100

\* HistoryPanel: {item.confidence || 0}% confidence
HistoryPanelPercent(item) ==
  IF item.confidence = 0 THEN 0 ELSE item.confidence

\* C18 as stated: for every confidence the API layer delivers, ResultDisplay
\* and HistoryPanel show the same percentage, and it lies in [0,100].
C18_OnePercentage ==
  (Returned /\ ValidText(call.text)) =>
    /\ ResultDisplayPercent(ret.value) = HistoryPanelPercent(ret.value)
    /\ ResultDisplayPercent(ret.value) \in 0..100
    /\ HistoryPanelPercent(ret.value) \in 0..100

\* the rows rendered last factor first
DisplayedFactorsReversed(result) ==
  [ i \in 1..Len(result.factors) |->
      [ name   |-> result.factors[Len(result.factors) + 1 - i].name,
        impact |-> result.factors[Len(result.factors) + 1 - i].impact,
        score  |-> result.factors[Len(result.factors) + 1 - i].score ] ]

\* ResultDisplay, "Key Factors Analyzed": result.factors.map(...) renders one
\* row per factor, in the order of the list, with the score rounded (the
\* scores of the model are integers)
DisplayedFactors(result) ==
  [ i \in 1..Len(result.factors) |->
      [ name   |-> result.factors[i].name,
        impact |-> result.factors[i].impact,
        score  |-> result.factors[i].score ] ]

Abs(x) == IF x < 0 THEN 0 - x ELSE x

\* position of a feature in the declaration order
DeclarationIndex(name) == CHOOSE k \in 1..Len(FeatureOrder) : FeatureOrder[k] = name

\* fs is ranked: at most TopN factors, by descending absolute contribution,
\* equal contributions in declaration order
Ranked(fs) ==
  /\ Len(fs) <= TopN
  /\ \A i \in 1..Len(fs) : \A j \in (i + 1)..Len(fs) :
       \/ Abs(fs[i].score) > Abs(fs[j].score)
       \/ /\ Abs(fs[i].score) = Abs(fs[j].score)
          /\ DeclarationIndex(fs[i].name) < DeclarationIndex(fs[j].name)

C19_AdjustmentsCapped ==
  engine.pc = "combined" =>
    /\ engine.adjustments.clickbait \in (0 - 15)..0
    /\ engine.adjustments.emotional \in (0 - 10)..0
    /\ engine.adjustments.bias \in (0 - 8)..0
    /\ engine.adjustments.citations \in 0..10
    /\ engine.total \in (0 - 30)..30

\* all three negative adjustments apply at their caps and nothing is added
C19_Witness ==
  /\ engine.pc = "combined"
  /\ engine.adjustments =
       [ clickbait |-> 0 - 15, emotional |-> 0 - 10, bias |-> 0 - 8,
         citations |-> 0 ]
  /\ engine.total = 0 - 30

\* C20 as stated: when a batch is cancelled or fails part-way, the analyses
\* that had already completed are still returned to the caller, and no
\* returned result is partially filled.
C20_CompletedAnalysesReturned ==
  batch.pc = "settled" =>
    /\ batch.done > 0 =>
         /\ batch.ret.status = "returned"
         /\ Len(batch.ret.value) >= batch.done
    /\ batch.ret.status = "returned" =>
         \A i \in 1..Len(batch.ret.value) :
           /\ DOMAIN batch.ret.value[i] =
                { "id", "prediction", "confidence", "explanation", "factors",
                  "sources", "timestamp", "inputText", "modelVersion" }
           /\ batch.ret.value[i].timestamp # Undefined
           /\ batch.ret.value[i].inputText = batch.texts[i]

\* C22: a call with a url whose request fails, for whatever reason, rejects
\* with the 'URL analysis requires backend connection' error and returns no
\* fallback prediction; only calls without a url return a fallback.
C22_UrlFailureRejects ==
  /\ (Truthy(call.url) /\ NetFailed) =>
       /\ Rejected
       /\ ret.value.message = UrlNeedsBackendError.message
  /\ (Returned /\ IsFallback(ret.value)) => ~Truthy(call.url)
  /\ (Returned /\ Truthy(call.url)) => NetAnswered

\* a url analysis whose request timed out
C22_Witness ==
  /\ Truthy(call.url)
  /\ net = << <<"timeout">> >>
  /\ Rejected
  /\ ret.value = UrlNeedsBackendError

\* the label a backend spelling stands for, whatever its case
LabelSent(spelling) ==
  IF ToLowerCase(spelling) = <<"f", "a", "k", "e">> THEN "fake"
  ELSE IF ToLowerCase(spelling) = <<"r", "e", "a", "l">> THEN "real"
  ELSE "inconclusive"

\* C30 as stated: for a text analysis the backend answered, the prediction
\* predictFakeNews returns is the label the backend sent, compared without
\* regard to case: fake stays fake, real stays real, inconclusive stays
\* inconclusive.
C30_LabelPreserved ==
  (Returned /\ ~Truthy(call.url) /\ NetAnswered /\ ValidText(call.text)) =>
    ret.value.prediction = LabelSent(net[Len(net)][2].prediction)

\* C28 as stated: every handleAnalyze call eventually finishes with the
\* analyzing flag reset to false and a non-null current result.
C28_AnalysisFinishes ==
  isAnalyzing ~> (~isAnalyzing /\ currentResult # Null)


\* ------------------------------------------------------------------------
\* Local history
\* ------------------------------------------------------------------------

\* a is b with some entries left out, the others in the same order
RECURSIVE IsSubsequence(_, _)
IsSubsequence(a, b) ==
  IF a = <<>> THEN TRUE
  ELSE IF b = <<>> THEN FALSE
  ELSE IF Head(a) = Head(b) THEN IsSubsequence(Tail(a), Tail(b))
  ELSE IsSubsequence(a, Tail(b))

\* this step is the end of an analysis
AnalysisEnds == isAnalyzing /\ ~isAnalyzing'

\* a step that ends a successful analysis puts its result first and keeps the
\* entries that were there in their order, without the last one when there
\* were 50 already; every other step only leaves entries out
NewestFirstStep ==
  LET h == localStorage.entries
      h2 == localStorage'.entries
  IN  IF AnalysisEnds /\ ret'.status = "returned"
      THEN /\ h2 # <<>>
           /\ h2[1] = currentResult'
           /\ Tail(h2) = IF Len(h) < HistoryLimit THEN h
                         ELSE SubSeq(h, 1, HistoryLimit - 1)
      ELSE IsSubsequence(h2, h)

\* C21: the predictionHistory of localStorage never holds more than 50
\* entries and is ordered newest first: a successful analysis inserts its
\* result at index 0 and drops only the oldest entry when the length exceeds
\* 50; deletions and clear-all only take entries out.
C21_NewestFirstAtMostFifty ==
  /\ [](Len(localStorage.entries) <= HistoryLimit)
  /\ [][NewestFirstStep]_vars

\* a full history received a new result: it is first, and the oldest entry of
\* the earlier session is gone
C21_Witness ==
  /\ Len(localStorage.entries) = HistoryLimit
  /\ localStorage.deletions = 0
  /\ localStorage.entries[1].id \notin StoredIds
  /\ localStorage.entries[HistoryLimit] = StoredEarlier[HistoryLimit - 1]


\* a step that ends a failed analysis leaves the stored history as it was; a
\* step that ends an analysis that produced a prediction adds that result once
WrittenOnSuccessOnly ==
  AnalysisEnds =>
    IF ret'.status = "rejected"
    THEN localStorage' = localStorage
    ELSE /\ Len(localStorage'.entries) =
              Min(Len(localStorage.entries) + 1, HistoryLimit)
         /\ localStorage'.entries[1] = currentResult'
         /\ IsSubsequence(Tail(localStorage'.entries), localStorage.entries)

\* C29: when an analysis fails (predictFakeNews rejects) the prediction
\* history in localStorage is left unchanged, the error result is not added;
\* every analysis that produced a prediction is added exactly once.
C29_HistoryWrittenOnSuccessOnly == [][WrittenOnSuccessOnly]_vars

\* a URL analysis has failed: the error result is on display and the history
\* of the earlier session is still what is stored
C29_Witness ==
  /\ ret.status = "rejected"
  /\ ~isAnalyzing
  /\ currentResult # Null
  /\ localStorage.entries = StoredEarlier


\* ------------------------------------------------------------------------
\* Dashboard statistics
\* ------------------------------------------------------------------------

LoadEnds ==
  /\ panel.mounted
  /\ panel'.mounted
  /\ panel.isLoading
  /\ ~panel'.isLoading

\* the page of the local history that the pending call asked for
RequestedLocalPage ==
  Slice(localStorage.entries, (panel.pending.pageNum - 1) * PageSize,
        panel.pending.pageNum * PageSize)

\* the end of a load shows the local page with the offline indication when
\* the request failed and there is local history, and no indication when the
\* request succeeded
OfflineShown ==
  LoadEnds =>
    IF panel'.backend = "failed"
    THEN Len(localStorage.entries) > 0 =>
           /\ panel'.history = IF panel.pending.append
                               THEN panel.history \o RequestedLocalPage
                               ELSE RequestedLocalPage
           /\ panel'.error = OfflineMessage
    ELSE panel'.error = Undefined

\* C23: when the backend history request fails and the local history is not
\* empty, HistoryPanel shows the requested page of the localStorage history
\* and sets the 'Using local data - backend unavailable' indication; when the
\* request succeeds the indication is absent.
C23_OfflineIndication == [][OfflineShown]_vars


\* this step is a deleteItem call
DeleteStep == localStorage'.deletions = localStorage.deletions + 1

\* the row n on display is what the step deleted: it left the history of the
\* panel, the entries with its id left localStorage, the total went down by
\* one and nothing else changed
RowDeleted(n) ==
  LET item == filteredHistory(panel)[n]
      position == Nth(FilteredPositions(panel), n)
  IN  /\ panel'.history = RemoveAt(panel.history, position)
      /\ localStorage'.entries = RemoveId(localStorage.entries, item.id)
      /\ panel'.total = panel.total - 1

\* every deleteItem step deletes one of the rows on display
DeletesDisplayedRow ==
  DeleteStep => \E n \in 1..Len(filteredHistory(panel)) : RowDeleted(n)

\* C25: with any history filter selected, pressing delete on a displayed
\* entry removes from the displayed history exactly that entry, removes the
\* entry with the same id from localStorage, decrements the total by one and
\* leaves every other entry unchanged.
C25_DeleteRemovesThatEntry == [][DeletesDisplayedRow]_vars


\* ------------------------------------------------------------------------
\* Feedback dialog
\* ------------------------------------------------------------------------

\* this step submits feedback that differs from the one submitted before
SubmitStep == dialog'.sent # dialog.sent

\* C26: feedback submitted from the feedback dialog carries as prediction_id
\* the id of the prediction that is currently displayed, the id field of the
\* current result.
C26_FeedbackCarriesId ==
  [][SubmitStep => dialog'.sent.prediction_id = currentResult.id]_vars

\* this step opens the feedback dialog
OpenStep == ~dialog.open /\ dialog'.open

\* C27: whenever the feedback dialog is opened, the preselected correction is
\* the opposite of the prediction currently displayed ('real' when it is
\* fake, 'fake' otherwise), after any sequence of analyses and of results
\* re-opened from the history; a selection the user made in the dialog of the
\* result on display is not counted.
C27_PreselectedOpposite ==
  [][OpenStep /\ ~dialog.chosen =>
       dialog'.correction = InitialCorrection(currentResult.prediction)]_vars

====
